---- MODULE Spec2Model ----
(***************************************************************************)
(* A model of the easl command line tool (src/src/main.rs, src/src/app.rs): *)
(* the batch commands compile / check / format, compile --watch, and        *)
(* run [--watch] with its watcher thread and the render loop's sketch.      *)
(*                                                                          *)
(* An Option<T> of the source is a sequence of length at most one:          *)
(* None is <<>> and Some(x) is <<x>>.  A String is a sequence of one        *)
(* character strings where its characters matter (values that are parsed),  *)
(* and an opaque token otherwise.                                           *)
(***************************************************************************)
EXTENDS Integers, Sequences, FiniteSets, TLC

None == <<>>
Some(x) == <<x>>
IsSome(o) == Len(o) = 1
Unwrap(o) == o[1]

\* ------------------------------------------------------------------ bounds
\* Steps the environment takes in one run: edits and removals of watched
\* files, messages of the watcher with no content change behind them, the
\* loss of the watcher's channel.
MaxEnvSteps == 2

\* ------------------------------------------------------- u32 and parsing
\* TLC's integers end at 2^31 - 1, so a u32 is kept as two 16-bit halves,
\* <<high, low>>, of value high * 2^16 + low.
HalfBase == 65536

U32(n) == <<n \div HalfBase, n % HalfBase>>

\* v * m + a for small m and a: the wrapped u32 and whether it overflowed.
MulAddU32(v, m, a) ==
  LET low == v[2] * m + a
      high == v[1] * m + (low \div HalfBase)
  IN [overflow |-> high >= HalfBase,
      val |-> <<high % HalfBase, low % HalfBase>>]

Digits == {"0", "1", "2", "3", "4", "5", "6", "7", "8", "9"}

DigitVal(c) ==
  CASE c = "0" -> 0 [] c = "1" -> 1 [] c = "2" -> 2 [] c = "3" -> 3
    [] c = "4" -> 4 [] c = "5" -> 5 [] c = "6" -> 6 [] c = "7" -> 7
    [] c = "8" -> 8 [] c = "9" -> 9

RECURSIVE ParseDigits(_, _)
\* The digits of s read left to right onto acc; None on a character that is no
\* digit or when the value leaves the u32 range.
ParseDigits(s, acc) ==
  IF s = <<>> THEN Some(acc)
  ELSE IF Head(s) \notin Digits THEN None
  ELSE LET next == MulAddU32(acc, 10, DigitVal(Head(s)))
       IN IF next.overflow THEN None ELSE ParseDigits(Tail(s), next.val)

\* str::parse::<u32>: an optional leading "+", then at least one digit.
ParseU32(s) ==
  IF s = <<>> THEN None
  ELSE LET body == IF Head(s) = "+" THEN Tail(s) ELSE s
       IN IF body = <<>> THEN None ELSE ParseDigits(body, U32(0))

\* ------------------------------------------------- Result<T, String>
Ok(v) == [ok |-> TRUE, val |-> v]
Err(e) == [ok |-> FALSE, err |-> e]

\* A line of diagnostics: the message, the path it names (<<>> when none)
\* and what else it names ("" when nothing).
Diag(msg, path, detail) == [msg |-> msg, path |-> path, detail |-> detail]

\* ----------------------------------------------------------- PathBuf
\* A path is a sequence of components and a component is <<stem, ext>>,
\* with ext = "" for a name without an extension.
Name(stem, ext) == <<stem, ext>>

\* Path::extension
extension(path) ==
  IF path = <<>> \/ path[Len(path)][2] = "" THEN None
  ELSE Some(path[Len(path)][2])

IsEasl(path) == extension(path) = Some("easl")

\* PathBuf::set_extension
set_extension(path, ext) ==
  IF path = <<>> THEN path
  ELSE [path EXCEPT ![Len(path)] = Name(@[1], ext)]

\* Path::starts_with
starts_with(path, base) ==
  Len(base) <= Len(path) /\ SubSeq(path, 1, Len(base)) = base

\* Path::ends_with
ends_with(path, child) ==
  Len(child) <= Len(path)
    /\ SubSeq(path, Len(path) - Len(child) + 1, Len(path)) = child

\* Path::strip_prefix
strip_prefix(path, base) ==
  IF starts_with(path, base)
    THEN Ok(SubSeq(path, Len(base) + 1, Len(path)))
    ELSE Err(Diag("Error: Failed to calculate relative path for", path, ""))

\* Path::join, for a relative second path
join(base, relative) == base \o relative

\* Path::parent
parent(path) ==
  IF path = <<>> THEN None ELSE Some(SubSeq(path, 1, Len(path) - 1))

\* Path::file_name, as a one-component path
file_name(path) ==
  IF path = <<>> THEN <<>> ELSE <<path[Len(path)]>>

\* The paths of the command line.
InputFile == <<Name("shader", "easl")>>
InputDir == <<Name("in", "")>>
OutputFile == <<Name("result", "wgsl")>>
OutputDir == <<Name("out", "")>>

\* -------------------------------------------------------- source texts
\* A source text, with what the external easl library answers for it:
\* whether compile_easl_source_to_wgsl succeeds, and the program info
\* (entry points in declaration order, global variables).
GlobalVar(name, uniform, value) ==
  [name |-> name, uniform_info |-> uniform, value |-> value]

Source(text, compiles, frags, verts, globals) ==
  [text |-> text, compiles |-> compiles, fragment_entries |-> frags,
   vertex_entries |-> verts, global_vars |-> globals]

\* One fragment and one vertex entry, (def triangles: u32 2).
SrcTwo ==
  Source("two", TRUE, <<"frag">>, <<"vert">>,
         <<GlobalVar("triangles", None, Some(<<"2">>))>>)

\* One fragment and one vertex entry, (def triangles: u32 0).
SrcZero ==
  Source("zero", TRUE, <<"frag">>, <<"vert">>,
         <<GlobalVar("triangles", None, Some(<<"0">>))>>)

\* Two fragment entries and no triangles global.
SrcAmbiguous ==
  Source("ambiguous", TRUE, <<"frag", "frag2">>, <<"vert">>,
         <<GlobalVar("scale", None, Some(<<"7">>))>>)

\* A text the compiler rejects.
SrcBroken == Source("broken", FALSE, <<>>, <<>>, <<>>)

Sources == {SrcTwo, SrcZero, SrcAmbiguous, SrcBroken}

\* ------------------------------------------------- the directory tree
\* A node of the input directory: a file with its content (None when it
\* cannot be read as text), or a directory with its entries in the order
\* read_dir yields them (listable = FALSE when read_dir fails on it).
File(content) ==
  [kind |-> "file", listable |-> FALSE, content |-> content, entries |-> <<>>]

Dir(listable, entries) ==
  [kind |-> "dir", listable |-> listable, content |-> None,
   entries |-> entries]

Entry(name, node) == [name |-> name, node |-> node]

RECURSIVE find_easl_files(_, _)
RECURSIVE FindInEntries(_, _, _)
\* The `for entry in entries` loop of find_easl_files over the entries not
\* yet visited, easl_files being the Vec collected so far.
FindInEntries(dir, entries, easl_files) ==
  IF entries = <<>> THEN Ok(easl_files)
  ELSE LET path == join(dir, <<Head(entries).name>>)
           node == Head(entries).node
       IN IF node.kind = "dir"
            THEN LET sub == find_easl_files(path, node)
                 IN IF sub.ok
                      THEN FindInEntries(dir, Tail(entries),
                                         easl_files \o sub.val)
                      ELSE sub
            ELSE IF IsEasl(path)
              THEN FindInEntries(dir, Tail(entries),
                                 Append(easl_files, path))
              ELSE FindInEntries(dir, Tail(entries), easl_files)

\* A faulty find_easl_files, for comparison: a directory that cannot be
\* listed is passed over.
find_easl_files_SkipsUnlistable(dir, node) ==
  IF ~node.listable THEN Ok(<<>>)
  ELSE FindInEntries(dir, node.entries, <<>>)

\* find_easl_files(dir), `node` being what is on disk at `dir`.
find_easl_files(dir, node) ==
  IF ~node.listable
    THEN Err(Diag("Error: Failed to read directory", dir, ""))
    ELSE FindInEntries(dir, node.entries, <<>>)

RECURSIVE ReadNode(_, _)
\* fs::read_to_string of the relative path `rel` below `node`: None when
\* there is no such file or its content cannot be read.
ReadNode(node, rel) ==
  IF rel = <<>>
    THEN IF node.kind = "file" THEN node.content ELSE None
    ELSE IF node.kind # "dir" THEN None
    ELSE LET hits == {i \in 1..Len(node.entries) :
                        node.entries[i].name = Head(rel)}
         IN IF hits = {} THEN None
            ELSE ReadNode(node.entries[CHOOSE i \in hits : TRUE].node,
                          Tail(rel))

RECURSIVE WriteNode(_, _, _)
\* `node` with the content of the file at `rel` replaced.
WriteNode(node, rel, content) ==
  IF rel = <<>>
    THEN IF node.kind = "file" THEN File(content) ELSE node
    ELSE Dir(node.listable,
             [i \in 1..Len(node.entries) |->
                IF node.entries[i].name = Head(rel)
                  THEN Entry(node.entries[i].name,
                             WriteNode(node.entries[i].node, Tail(rel),
                                       content))
                  ELSE node.entries[i]])

RECURSIVE NodePaths(_, _)
\* Every path at or below `dir`, directories included.
NodePaths(dir, node) ==
  {dir} \cup
    IF node.kind = "dir"
      THEN UNION {NodePaths(join(dir, <<node.entries[i].name>>),
                            node.entries[i].node) :
                    i \in 1..Len(node.entries)}
      ELSE {}

RECURSIVE FilePaths(_, _)
\* The path of every file at or below `dir`.
FilePaths(dir, node) ==
  IF node.kind = "dir"
    THEN UNION {FilePaths(join(dir, <<node.entries[i].name>>),
                          node.entries[i].node) :
                  i \in 1..Len(node.entries)}
    ELSE {dir}

\* ------------------------------------------------------ try_compile_easl
try_compile_easl(easl_source) ==
  IF easl_source.compiles
    THEN Ok(<<"wgsl", easl_source.text>>)
    ELSE Err(Diag("Compilation failed", <<>>, easl_source.text))

\* format_easl_source: total
format_easl_source(easl_source) == <<"formatted", easl_source.text>>

\* ------------------------------------------- files written, as a map
\* A map from paths to values is a set of [path, data] records with at
\* most one record per path.
Insert(map, path, data) ==
  {e \in map : e.path # path} \cup {[path |-> path, data |-> data]}

Get(map, path) ==
  IF \E e \in map : e.path = path
    THEN Some((CHOOSE e \in map : e.path = path).data)
    ELSE None

\* Every non-empty prefix of a path: what create_dir_all makes exist.
Ancestors(path) == {SubSeq(path, 1, n) : n \in 1..Len(path)}

\* ------------------------------------------------ compile_single_file
\* A faulty compile_single_file, for comparison: the output file is created
\* before the compiler runs and is left empty when it fails.
compile_single_file_Truncates(input, content, output, files, write_ok) ==
  IF content = None
    THEN [res |-> Err(Diag("Error: Failed to read input file", input, "")),
          files |-> files]
    ELSE LET compiled == try_compile_easl(Unwrap(content))
             output_path == IF IsSome(output) THEN Unwrap(output)
                            ELSE set_extension(input, "wgsl")
         IN IF ~compiled.ok
              THEN [res |-> Err(compiled.err),
                    files |-> Insert(files, output_path, <<"wgsl", "">>)]
              ELSE IF ~write_ok
                THEN [res |-> Err(Diag("Error: Failed to write output file", output_path, "")),
                      files |-> files]
                ELSE [res |-> Ok(output_path),
                      files |-> Insert(files, output_path, compiled.val)]

\* `content` is what read_source finds at `input`, `files` the files
\* written so far, write_ok whether fs::write succeeds; an fs::write that
\* fails is taken to leave the file as it was. The result and the files
\* written afterwards.
compile_single_file(input, content, output, files, write_ok) ==
  IF content = None
    THEN [res |-> Err(Diag("Error: Failed to read input file", input, "")),
          files |-> files]
    ELSE LET compiled == try_compile_easl(Unwrap(content))
             output_path == IF IsSome(output) THEN Unwrap(output)
                            ELSE set_extension(input, "wgsl")
         IN IF ~compiled.ok
              THEN [res |-> Err(compiled.err), files |-> files]
              ELSE IF ~write_ok
                THEN [res |-> Err(Diag("Error: Failed to write output file", output_path, "")),
                      files |-> files]
                ELSE [res |-> Ok(output_path),
                      files |-> Insert(files, output_path, compiled.val)]

\* -------------------------------------------------- check_single_file
check_single_file(input, content) ==
  IF content = None
    THEN Err(Diag("Error: Failed to read input file", input, ""))
    ELSE LET compiled == try_compile_easl(Unwrap(content))
         IN IF compiled.ok THEN Ok(input) ELSE Err(compiled.err)

\* ------------------------------------------------- format_single_file
format_single_file(input, content, output, files, write_ok) ==
  IF content = None
    THEN [res |-> Err(Diag("Error: Failed to read input file", input, "")),
          files |-> files]
    ELSE LET output_path == IF IsSome(output) THEN Unwrap(output) ELSE input
         IN IF ~write_ok
              THEN [res |-> Err(Diag("Error: Failed to write output file", output_path, "")),
                    files |-> files]
              ELSE [res |-> Ok(output_path),
                    files |-> Insert(files, output_path,
                                     format_easl_source(Unwrap(content)))]

\* -------------------------------------------- get_output_path_for_file
\* A faulty mapping, for comparison: the file name is placed directly in the
\* output root, whatever directory of the input it is in.
get_output_path_for_file_Flat(file, input_base, input_is_dir, output_base, dirs, mkdir_ok) ==
  IF IsSome(output_base)
    THEN IF input_is_dir
           THEN LET out_path ==
                      set_extension(join(Unwrap(output_base), file_name(file)),
                                    "wgsl")
                IN IF ~starts_with(file, input_base)
                     THEN [res |-> Err(strip_prefix(file, input_base).err),
                           dirs |-> dirs]
                     ELSE IF ~mkdir_ok
                       THEN [res |-> Err(Diag("Error: Failed to create directory", Unwrap(parent(out_path)), "")),
                             dirs |-> dirs]
                       ELSE [res |-> Ok(out_path),
                             dirs |-> dirs \cup
                                        Ancestors(Unwrap(parent(out_path)))]
           ELSE [res |-> Ok(Unwrap(output_base)), dirs |-> dirs]
    ELSE [res |-> Ok(set_extension(file, "wgsl")), dirs |-> dirs]

\* input_is_dir is `input_base.is_dir()`, dirs the directories created so
\* far, mkdir_ok whether fs::create_dir_all succeeds. The result and the
\* directories created afterwards.
get_output_path_for_file(file, input_base, input_is_dir, output_base, dirs, mkdir_ok) ==
  IF IsSome(output_base)
    THEN IF input_is_dir
           THEN LET relative_path == strip_prefix(file, input_base)
                    out_path ==
                      set_extension(join(Unwrap(output_base),
                                         relative_path.val), "wgsl")
                IN IF ~relative_path.ok
                     THEN [res |-> Err(relative_path.err), dirs |-> dirs]
                     ELSE IF IsSome(parent(out_path)) /\ ~mkdir_ok
                       THEN [res |-> Err(Diag("Error: Failed to create directory", Unwrap(parent(out_path)), "")),
                             dirs |-> dirs]
                       ELSE [res |-> Ok(out_path),
                             dirs |-> IF IsSome(parent(out_path))
                                        THEN dirs \cup
                                             Ancestors(Unwrap(parent(out_path)))
                                        ELSE dirs]
           ELSE [res |-> Ok(Unwrap(output_base)), dirs |-> dirs]
    ELSE [res |-> Ok(set_extension(file, "wgsl")), dirs |-> dirs]

\* The output path of format_file's loop: with an output directory, the
\* relative path below it, its parent directories created.
format_output_path(file, input, output, dirs, mkdir_ok) ==
  IF IsSome(output)
    THEN LET relative_path == strip_prefix(file, input)
             out_path == join(Unwrap(output), relative_path.val)
         IN IF ~relative_path.ok
              THEN [res |-> Err(relative_path.err), dirs |-> dirs]
              ELSE IF IsSome(parent(out_path)) /\ ~mkdir_ok
                THEN [res |-> Err(Diag("Error: Failed to create directory", Unwrap(parent(out_path)), "")),
                      dirs |-> dirs]
                ELSE [res |-> Ok(Some(out_path)),
                      dirs |-> IF IsSome(parent(out_path))
                                 THEN dirs \cup
                                      Ancestors(Unwrap(parent(out_path)))
                                 ELSE dirs]
    ELSE [res |-> Ok(None), dirs |-> dirs]

\* Vec::contains
Contains(seq, x) == \E i \in 1..Len(seq) : seq[i] = x

\* --------------------------------------------------- create_run_config
\* A faulty resolution, for comparison: with no name given and several
\* entries the first one is picked.
FragmentEntry_PicksFirst(program_info, fragment) ==
  IF IsSome(fragment)
    THEN IF Contains(program_info.fragment_entries, Unwrap(fragment))
           THEN Ok(Unwrap(fragment))
           ELSE Err(Diag("No fragment entry point named", <<>>, Unwrap(fragment)))
    ELSE IF Len(program_info.fragment_entries) = 0
           THEN Err(Diag("No fragment entry point found", <<>>, ""))
           ELSE Ok(program_info.fragment_entries[1])

FragmentEntry(program_info, fragment) ==
  IF IsSome(fragment)
    THEN IF Contains(program_info.fragment_entries, Unwrap(fragment))
           THEN Ok(Unwrap(fragment))
           ELSE Err(Diag("No fragment entry point named", <<>>, Unwrap(fragment)))
    ELSE CASE Len(program_info.fragment_entries) = 0 ->
                Err(Diag("No fragment entry point found", <<>>, ""))
           [] Len(program_info.fragment_entries) = 1 ->
                Ok(program_info.fragment_entries[1])
           [] OTHER ->
                Err(Diag("Multiple fragment entry points found", <<>>, ""))

VertexEntry(program_info, vertex) ==
  IF IsSome(vertex)
    THEN IF Contains(program_info.vertex_entries, Unwrap(vertex))
           THEN Ok(Unwrap(vertex))
           ELSE Err(Diag("No vertex entry point named", <<>>, Unwrap(vertex)))
    ELSE CASE Len(program_info.vertex_entries) = 0 ->
                Err(Diag("No vertex entry point found", <<>>, ""))
           [] Len(program_info.vertex_entries) = 1 ->
                Ok(program_info.vertex_entries[1])
           [] OTHER ->
                Err(Diag("Multiple vertex entry points found", <<>>, ""))

\* The closure handed to find_map: Some(count) for a non-uniform global
\* named triangles whose value parses as u32.
TrianglesOfVar(var) ==
  IF var.uniform_info = None /\ var.name = "triangles" /\ IsSome(var.value)
    THEN ParseU32(Unwrap(var.value))
    ELSE None

RECURSIVE FindMapTriangles(_)
FindMapTriangles(global_vars) ==
  IF global_vars = <<>> THEN None
  ELSE IF IsSome(TrianglesOfVar(Head(global_vars)))
         THEN TrianglesOfVar(Head(global_vars))
         ELSE FindMapTriangles(Tail(global_vars))

\* A faulty resolution, for comparison: the source's count is looked for
\* first.
TriangleCount_SourceFirst(program_info, triangles) ==
  IF IsSome(FindMapTriangles(program_info.global_vars))
    THEN Ok(Unwrap(FindMapTriangles(program_info.global_vars)))
    ELSE IF IsSome(triangles) THEN Ok(Unwrap(triangles))
    ELSE Err(Diag("No triangle count specified", <<>>, ""))

TriangleCount(program_info, triangles) ==
  IF IsSome(triangles) THEN Ok(Unwrap(triangles))
  ELSE IF IsSome(FindMapTriangles(program_info.global_vars))
         THEN Ok(Unwrap(FindMapTriangles(program_info.global_vars)))
         ELSE Err(Diag("No triangle count specified", <<>>, ""))

RunConfig(wgsl, fragment_entry, vertex_entry, triangles) ==
  [wgsl |-> wgsl, fragment_entry |-> fragment_entry,
   vertex_entry |-> vertex_entry, triangles |-> triangles]

create_run_config(easl_source, fragment, vertex, triangles) ==
  LET wgsl == try_compile_easl(easl_source)
      fragment_entry == FragmentEntry(easl_source, fragment)
      vertex_entry == VertexEntry(easl_source, vertex)
      count == TriangleCount(easl_source, triangles)
  IN IF ~wgsl.ok THEN Err(wgsl.err)
     ELSE IF ~fragment_entry.ok THEN Err(fragment_entry.err)
     ELSE IF ~vertex_entry.ok THEN Err(vertex_entry.err)
     ELSE IF ~count.ok THEN Err(count.err)
     ELSE Ok(RunConfig(wgsl.val, fragment_entry.val, vertex_entry.val,
                       count.val))

\* ================================================================ state
VARIABLES
  \* -- the command line and the environment
  cli,            \* the parsed command line: command, input, output, watch,
                  \* fragment, vertex, triangles
  file,           \* a file given as input: None (unreadable) or Some(text)
  tree,           \* a directory given as input
  rx,             \* the watcher's channel: messages sent and not yet received
  watching,       \* the OS watcher is registered and may send events
  disconnected,   \* the sending side of the channel is gone
  env_steps,      \* steps of the environment so far
  \* -- the main thread
  mpc,            \* where the main thread is
  exit_code,      \* None while the process runs, then Some(code)
  \* -- compile_file, check_file, format_file (main thread)
  easl_files,     \* the files of the batch loop not yet visited
  failed,         \* the batch loop's `failed`
  file_contents,  \* compile --watch's cache, a map from paths to contents
  outputs,        \* the files written, a map from paths to what was written
  created_dirs,   \* the directories create_dir_all made exist
  \* -- run_file and the render loop (main thread)
  queued_config,  \* the content of Arc<Mutex<Option<RunConfig>>>
  lock_holder,    \* who holds that Mutex: "none", "watcher" or "render"
  config,         \* UserSketch::update's local `config`
  inner,          \* UserSketch::inner
  drawn,          \* the vertex count of the last draw call, None before one
  \* -- the watcher thread of run --watch
  wpc,            \* where the watcher thread is
  file_content,   \* its `file_content`: None until first read
  paths,         \* the paths of the event being handled, not yet visited
  current_content,\* its `current_content` while a rebuild runs
  new_config,     \* the RunConfig of a successful rebuild, until published
  \* -- what was observed
  stderr,         \* the last line written to stderr, None before one
  attempted,      \* the files the batch loop's body ran for, in order
  last_seen,      \* a map from paths to the content the watch loop read
                  \* for the path's last event that reached the change check
  verdict,        \* what the last change check answered: Some(changed)
  written,        \* the configs stored in queued_config since the last take
  taken_from,     \* `written` as it was at the last take
  published,      \* every config stored in the slot so far, in order
  applied_configs, \* every config update_config applied so far, in order
  handed          \* a map from paths to the content last handed to
                  \* compile_single_file's compiler call or create_run_config

vars_env == <<cli, file, tree, rx, watching, disconnected, env_steps>>
vars_batch == <<easl_files, failed, file_contents, outputs, created_dirs>>
vars_main == <<mpc, exit_code, vars_batch, queued_config, lock_holder, config,
              inner, drawn>>
vars_watcher == <<wpc, file_content, paths, current_content, new_config>>
vars_obs ==
  <<stderr, attempted, last_seen, verdict, written, taken_from, published,
    applied_configs, handed>>
vars == <<vars_env, vars_main, vars_watcher, vars_obs>>

\* ----------------------------------------------------------- the inputs
\* notify::EventKind
EventKinds == {"Create", "Modify", "Remove", "Other"}

\* A path that is not the input file and does not end with its name.
OtherFile == <<Name("shader", "wgsl")>>

Event(kind, ps) == [tag |-> "event", kind |-> kind, paths |-> ps]
WatchError == [tag |-> "error", kind |-> "Other", paths |-> <<>>]

\* The values of --fragment, --vertex and --triangles tried.
FragmentArgs == {None, Some("frag")}
VertexArgs == {None}
TriangleArgs == {None, Some(U32(0))}

Running == exit_code = None

\* =================================================== run_file, main thread
\* read_source, create_run_config, Arc::new(Mutex::new(Some(..))) and, with
\* --watch, the spawn of the watcher thread.
RunFileStart ==
  /\ Running /\ mpc = "main" /\ cli.command = "run"
  /\ IF file = None
       THEN /\ stderr' = Some(Diag("Error: Failed to read input file",
                                 cli.input, ""))
            /\ exit_code' = Some(1)
            /\ mpc' = "exited"
            /\ UNCHANGED <<queued_config, wpc, written, published, handed>>
       ELSE LET initial_config ==
                  create_run_config(Unwrap(file), cli.fragment, cli.vertex,
                                    cli.triangles)
            IN IF ~initial_config.ok
                 THEN /\ stderr' = Some(initial_config.err)
                      /\ exit_code' = Some(1)
                      /\ mpc' = "exited"
                      /\ UNCHANGED <<queued_config, wpc, written, published>>
                      /\ handed' = Insert(handed, cli.input, Unwrap(file))
                 ELSE /\ queued_config' = Some(initial_config.val)
                      /\ written' = <<initial_config.val>>
                      /\ published' = <<initial_config.val>>
                      /\ handed' = Insert(handed, cli.input, Unwrap(file))
                      /\ wpc' = IF cli.watch THEN "read_initial" ELSE wpc
                      /\ mpc' = "init"
                      /\ UNCHANGED <<stderr, exit_code>>
  /\ UNCHANGED <<vars_env, lock_holder, config, inner, drawn, file_content,
                 paths, current_content, new_config, taken_from, applied_configs, vars_batch,
                 attempted, last_seen, verdict>>

\* Sketch::init, which the render driver calls once before the first frame.
SketchInit ==
  /\ Running /\ mpc = "init"
  /\ inner' = Some([triangles |-> U32(0), render_pipeline |-> None])
  /\ mpc' = "update"
  /\ UNCHANGED <<vars_env, exit_code, queued_config, lock_holder, config,
                 drawn, vars_watcher, vars_obs, vars_batch>>

\* UserSketch::update, `self.queued_config.lock()`: Mutex::lock returns once
\* the lock is free.
UpdateLock ==
  /\ Running /\ mpc = "update"
  /\ lock_holder = "none"
  /\ lock_holder' = "render"
  /\ mpc' = "take"
  /\ UNCHANGED <<vars_env, exit_code, queued_config, config, inner, drawn,
                 vars_watcher, vars_obs, vars_batch>>

\* A faulty take, for comparison: the config is copied and left in the slot.
UpdateTake_LeavesSlot ==
  /\ Running /\ mpc = "take"
  /\ config' = queued_config
  /\ lock_holder' = "none"
  /\ mpc' = "apply"
  /\ taken_from' = written
  /\ UNCHANGED <<vars_env, exit_code, inner, drawn, vars_watcher, stderr,
                 vars_batch, attempted, last_seen, verdict, published,
                 applied_configs, handed, queued_config, written>>

\* `queued.take()`, and the guard dropped at the end of the `if let`.
UpdateTake ==
  /\ Running /\ mpc = "take"
  /\ config' = queued_config
  /\ queued_config' = None
  /\ lock_holder' = "none"
  /\ mpc' = "apply"
  /\ taken_from' = written
  /\ written' = <<>>
  /\ UNCHANGED <<vars_env, exit_code, inner, drawn, vars_watcher, stderr,
                 vars_batch, attempted, last_seen, verdict, published,
                 applied_configs, handed>>

\* A faulty update_config, for comparison: the pipeline is rebuilt and the
\* triangle count of the sketch is left as it was.
update_config_KeepsTriangles(sketch_inner, cfg) ==
  IF sketch_inner = None THEN sketch_inner
  ELSE Some([triangles |-> Unwrap(sketch_inner).triangles,
             render_pipeline |->
               Some([wgsl |-> cfg.wgsl, vertex_entry |-> cfg.vertex_entry,
                     fragment_entry |-> cfg.fragment_entry])])

\* UserSketch::update_config
update_config(sketch_inner, cfg) ==
  IF sketch_inner = None THEN sketch_inner
  ELSE Some([triangles |-> cfg.triangles,
             render_pipeline |->
               Some([wgsl |-> cfg.wgsl, vertex_entry |-> cfg.vertex_entry,
                     fragment_entry |-> cfg.fragment_entry])])

\* The vertex range's end in `draw(0..(inner.triangles * 3), 0..1)`.
VertexCount(triangles) == MulAddU32(triangles, 3, 0).val

\* The rest of UserSketch::update: update_config when a config was taken,
\* then the render pass when there is a pipeline. `inner.triangles * 3` is
\* a u32 product: when it leaves the u32 range, a build with overflow
\* checks panics on the main thread before the draw call, and a build
\* without them draws the wrapped count.
UpdateRender ==
  /\ Running /\ mpc = "apply"
  /\ LET applied == IF IsSome(config)
                      THEN update_config(inner, Unwrap(config))
                      ELSE inner
         draws == IsSome(applied) /\ IsSome(Unwrap(applied).render_pipeline)
         overflows == draws /\ MulAddU32(Unwrap(applied).triangles, 3, 0).overflow
     IN /\ inner' = applied
        /\ \E overflow_checks \in IF overflows THEN BOOLEAN ELSE {FALSE} :
             IF overflow_checks
               THEN /\ stderr' = Some(Diag("attempt to multiply with overflow",
                                           <<>>, ""))
                    /\ exit_code' = Some(101)
                    /\ mpc' = "exited"
                    /\ UNCHANGED drawn
               ELSE /\ drawn' = IF draws
                                  THEN Some(VertexCount(Unwrap(applied).triangles))
                                  ELSE drawn
                    /\ mpc' = "update"
                    /\ UNCHANGED <<exit_code, stderr>>
  /\ applied_configs' = IF IsSome(config) /\ IsSome(inner)
                          THEN Append(applied_configs, Unwrap(config))
                          ELSE applied_configs
  /\ config' = None
  /\ UNCHANGED <<vars_env, queued_config, lock_holder, vars_watcher,
                 vars_batch, attempted, last_seen, verdict, written,
                 taken_from, published, handed>>

\* The window is closed between two frames: run() returns, run_file returns
\* Ok(()) and the process ends.
RunExit ==
  /\ Running /\ mpc = "update"
  /\ mpc' = "exited"
  /\ exit_code' = Some(0)
  /\ UNCHANGED <<vars_env, queued_config, lock_holder, config, inner, drawn,
                 vars_watcher, vars_obs, vars_batch>>

\* ============================ compile_file, check_file, format_file
InputIsDir == cli.input = InputDir

\* The working directory, and the absolute form of a relative path: a
\* watcher may name a file in events by its absolute path.
WorkingDir == <<Name("cwd", "")>>

Absolute(path) == join(WorkingDir, path)

\* The path relative to the working directory that names the same file.
Relative(path) ==
  IF starts_with(path, WorkingDir) THEN strip_prefix(path, WorkingDir).val
  ELSE path

\* fs::read_to_string(path) on the disk as it is now.
ReadPath(path) ==
  IF InputIsDir
    THEN IF starts_with(Relative(path), InputDir)
           THEN ReadNode(tree, strip_prefix(Relative(path), InputDir).val)
           ELSE None
    ELSE IF Relative(path) = cli.input THEN file ELSE None

\* The single-file operation of the command on `input`, writing to `output`:
\* the result and the files written afterwards.
SingleFile(command, input, output, write_ok) ==
  CASE command = "compile" ->
         compile_single_file(input, ReadPath(input), output, outputs, write_ok)
    [] command = "check" ->
         [res |-> check_single_file(input, ReadPath(input)), files |-> outputs]
    [] command = "format" ->
         format_single_file(input, ReadPath(input), output, outputs, write_ok)

\* What the batch loop's summary line says: the number of failed files.
BatchFailure(command, count) ==
  CASE command = "compile" ->
         Diag("Failed to compile file(s)", <<>>, ToString(count))
    [] command = "check" ->
         Diag("Failed to typecheck file(s)", <<>>, ToString(count))
    [] command = "format" ->
         Diag("Failed to format file(s)", <<>>, ToString(count))

\* main's `eprintln!("{e}"); std::process::exit(1)` on an Err.
ExitWith(e) ==
  /\ stderr' = Some(e)
  /\ exit_code' = Some(1)
  /\ mpc' = "exited"

\* What a command does once its operation succeeded: compile --watch goes
\* on to watch, every other command returns Ok(()) and main ends.
Succeed ==
  IF cli.command = "compile" /\ cli.watch
    THEN mpc' = "build_cache" /\ UNCHANGED <<exit_code, stderr>>
    ELSE mpc' = "exited" /\ exit_code' = Some(0) /\ UNCHANGED stderr

\* The start of compile_once, check_file and format_file: the single-file
\* operation for a file, find_easl_files and the empty check for a directory.
CliStart ==
  /\ Running /\ mpc = "main" /\ cli.command # "run"
  /\ IF InputIsDir
       THEN LET found == find_easl_files(cli.input, tree)
            IN /\ IF ~found.ok
                    THEN ExitWith(found.err) /\ UNCHANGED easl_files
                    ELSE IF found.val = <<>>
                      THEN /\ ExitWith(Diag("No .easl files found in directory",
                                            cli.input, ""))
                           /\ UNCHANGED easl_files
                      ELSE /\ easl_files' = found.val
                           /\ mpc' = "batch"
                           /\ UNCHANGED <<exit_code, stderr>>
               /\ UNCHANGED <<outputs, attempted, handed>>
       ELSE \E write_ok \in BOOLEAN :
              LET done == SingleFile(cli.command, cli.input, cli.output,
                                     write_ok)
              IN /\ outputs' = done.files
                 /\ attempted' = <<cli.input>>
                 /\ handed' = IF cli.command = "compile" /\ IsSome(file)
                                 THEN Insert(handed, cli.input, Unwrap(file))
                                 ELSE handed
                 /\ IF done.res.ok THEN Succeed ELSE ExitWith(done.res.err)
                 /\ UNCHANGED easl_files
  /\ UNCHANGED <<vars_env, failed, file_contents, created_dirs, queued_config,
                 lock_holder, config, inner, drawn, vars_watcher, last_seen,
                 verdict, written, taken_from, published, applied_configs>>

\* One turn of compile_once's `for file in &easl_files`.
CompileBatchStep ==
  /\ Running /\ mpc = "batch" /\ cli.command = "compile"
  /\ easl_files # <<>>
  /\ \E mkdir_ok \in BOOLEAN, write_ok \in BOOLEAN :
       LET file_path == Head(easl_files)
           output_path ==
             get_output_path_for_file(file_path, cli.input, InputIsDir,
                                      cli.output, created_dirs, mkdir_ok)
           done == SingleFile("compile", file_path, Some(output_path.res.val),
                              write_ok)
       IN /\ created_dirs' = output_path.dirs
          /\ IF ~output_path.res.ok
               THEN /\ stderr' = Some(output_path.res.err)
                    /\ failed' = Append(failed, file_path)
                    /\ UNCHANGED outputs
               ELSE /\ outputs' = done.files
                    /\ IF done.res.ok
                         THEN UNCHANGED <<stderr, failed>>
                         ELSE /\ stderr' = Some(done.res.err)
                              /\ failed' = Append(failed, file_path)
          /\ attempted' = Append(attempted, file_path)
          /\ handed' = IF output_path.res.ok /\ IsSome(ReadPath(file_path))
                          THEN Insert(handed, file_path,
                                      Unwrap(ReadPath(file_path)))
                          ELSE handed
  /\ easl_files' = Tail(easl_files)
  /\ UNCHANGED <<vars_env, mpc, exit_code, file_contents, queued_config,
                 lock_holder, config, inner, drawn, vars_watcher, last_seen,
                 verdict, written, taken_from, published, applied_configs>>

\* One turn of check_file's `for file in &easl_files`.
CheckBatchStep ==
  /\ Running /\ mpc = "batch" /\ cli.command = "check"
  /\ easl_files # <<>>
  /\ LET file_path == Head(easl_files)
         done == SingleFile("check", file_path, None, TRUE)
     IN /\ IF done.res.ok
             THEN UNCHANGED <<stderr, failed>>
             ELSE /\ stderr' = Some(done.res.err)
                  /\ failed' = Append(failed, file_path)
        /\ attempted' = Append(attempted, file_path)
  /\ easl_files' = Tail(easl_files)
  /\ UNCHANGED <<vars_env, mpc, exit_code, file_contents, outputs,
                 created_dirs, queued_config, lock_holder, config, inner,
                 drawn, vars_watcher, last_seen, verdict, written, taken_from, published, applied_configs, handed>>

\* One turn of format_file's `for file in &easl_files`: an error of
\* strip_prefix or create_dir_all leaves format_file through `?`.
FormatBatchStep ==
  /\ Running /\ mpc = "batch" /\ cli.command = "format"
  /\ easl_files # <<>>
  /\ \E mkdir_ok \in BOOLEAN, write_ok \in BOOLEAN :
       LET file_path == Head(easl_files)
           output_path == format_output_path(file_path, cli.input, cli.output,
                                             created_dirs, mkdir_ok)
           done == SingleFile("format", file_path, output_path.res.val,
                              write_ok)
       IN /\ created_dirs' = output_path.dirs
          /\ IF ~output_path.res.ok
               THEN /\ ExitWith(output_path.res.err)
                    /\ UNCHANGED <<outputs, failed>>
               ELSE /\ outputs' = done.files
                    /\ UNCHANGED <<mpc, exit_code>>
                    /\ IF done.res.ok
                         THEN UNCHANGED <<stderr, failed>>
                         ELSE /\ stderr' = Some(done.res.err)
                              /\ failed' = Append(failed, file_path)
          /\ attempted' = Append(attempted, file_path)
  /\ easl_files' = Tail(easl_files)
  /\ UNCHANGED <<vars_env, file_contents, queued_config, lock_holder, config,
                 inner, drawn, vars_watcher, last_seen, verdict, written,
                 taken_from, published, applied_configs, handed>>

\* A faulty end of the loop, for comparison: the command goes on whatever
\* failed.
BatchEnd_IgnoresFailures ==
  /\ Running /\ mpc = "batch"
  /\ easl_files = <<>>
  /\ Succeed
  /\ UNCHANGED <<vars_env, vars_batch, queued_config, lock_holder, config,
                 inner, drawn, vars_watcher, attempted, last_seen, verdict,
                 written, taken_from, published, applied_configs, handed>>

\* After the loop: the summary, and what the command returns.
BatchEnd ==
  /\ Running /\ mpc = "batch"
  /\ easl_files = <<>>
  /\ IF failed # <<>> THEN ExitWith(BatchFailure(cli.command, Len(failed))) ELSE Succeed
  /\ UNCHANGED <<vars_env, vars_batch, queued_config, lock_holder, config,
                 inner, drawn, vars_watcher, attempted, last_seen, verdict,
                 written, taken_from, published, applied_configs, handed>>

\* ------------------------------------------------------ compile --watch
Range(seq) == {seq[i] : i \in 1..Len(seq)}

\* "Build initial content cache": find_easl_files again for a directory,
\* and an entry for every file that can be read.
CompileWatchCache ==
  /\ Running /\ mpc = "build_cache"
  /\ LET files_to_watch == IF InputIsDir
                             THEN find_easl_files(cli.input, tree)
                             ELSE Ok(<<cli.input>>)
     IN IF ~files_to_watch.ok
          THEN ExitWith(files_to_watch.err) /\ UNCHANGED file_contents
          ELSE /\ file_contents' =
                    {[path |-> f, data |-> Unwrap(ReadPath(f))] :
                       f \in {g \in Range(files_to_watch.val) :
                                ReadPath(g) # None}}
               /\ mpc' = "new_watcher"
               /\ UNCHANGED <<exit_code, stderr>>
  /\ UNCHANGED <<vars_env, easl_files, failed, outputs, created_dirs,
                 queued_config, lock_holder, config, inner, drawn,
                 vars_watcher, attempted, last_seen, verdict, written,
                 taken_from, published, applied_configs, handed>>

\* RecommendedWatcher::new in compile_file: the OS may refuse.
CompileWatcherNew ==
  /\ Running /\ mpc = "new_watcher"
  /\ \E created \in BOOLEAN :
       IF created
         THEN mpc' = "watch" /\ UNCHANGED <<exit_code, stderr>>
         ELSE ExitWith(Diag("Error: Failed to create file watcher", <<>>, ""))
  /\ UNCHANGED <<vars_env, vars_batch, queued_config, lock_holder, config,
                 inner, drawn, vars_watcher, attempted, last_seen, verdict,
                 written, taken_from, published, applied_configs, handed>>

\* watcher.watch(&input, watch_mode) in compile_file: the OS may refuse.
CompileWatcherWatch ==
  /\ Running /\ mpc = "watch"
  /\ \E registered \in BOOLEAN :
       IF registered
         THEN /\ mpc' = "recv"
              /\ watching' = TRUE
              /\ UNCHANGED <<exit_code, stderr>>
         ELSE /\ ExitWith(Diag("Error: Failed to watch path", cli.input, ""))
              /\ UNCHANGED watching
  /\ UNCHANGED <<cli, file, tree, rx, disconnected, env_steps, vars_batch,
                 queued_config, lock_holder, config, inner, drawn,
                 vars_watcher, attempted, last_seen, verdict, written,
                 taken_from, published, applied_configs, handed>>

\* A faulty choice of kinds, for comparison: the kinds run --watch handles.
CompileWatchHandles_AnyChange(kind) == kind \in {"Modify", "Create", "Remove"}

\* The kinds the compile --watch loop handles.
CompileWatchHandles(kind) == kind = "Modify"

\* `rx.recv()` in compile_file's loop and the match on its result.
CompileRecv ==
  /\ Running /\ mpc = "recv"
  /\ IF rx # <<>>
       THEN /\ rx' = Tail(rx)
            /\ IF Head(rx).tag = "error"
                 THEN /\ stderr' = Some(Diag("Watch error", <<>>, ""))
                      /\ UNCHANGED <<mpc, exit_code, paths>>
                 ELSE IF CompileWatchHandles(Head(rx).kind)
                        THEN /\ paths' = Head(rx).paths
                             /\ mpc' = "paths"
                             /\ UNCHANGED <<exit_code, stderr>>
                        ELSE UNCHANGED <<mpc, exit_code, paths, stderr>>
       ELSE /\ disconnected
            /\ ExitWith(Diag("Error: Channel receive error", <<>>, ""))
            /\ UNCHANGED <<rx, paths>>
  /\ UNCHANGED <<cli, file, tree, watching, disconnected, env_steps,
                 vars_batch, queued_config, lock_holder, config, inner, drawn,
                 wpc, file_content, current_content, new_config, attempted,
                 last_seen, verdict, written, taken_from, published, applied_configs, handed>>

\* One turn of `for path in paths` in compile_file's loop.
CompilePath ==
  /\ Running /\ mpc = "paths"
  /\ IF paths = <<>>
       THEN /\ mpc' = "recv"
            /\ UNCHANGED <<paths, stderr, file_contents, outputs,
                           created_dirs, last_seen, verdict, handed>>
       ELSE /\ paths' = Tail(paths)
            /\ UNCHANGED mpc
            /\ LET path == Head(paths)
                   current == ReadPath(path)
               IN IF ~IsEasl(path)
                    THEN UNCHANGED <<stderr, file_contents, outputs,
                                     created_dirs, last_seen, verdict,
                                     handed>>
                  ELSE IF current = None
                    THEN /\ stderr' = Some(Diag("Error reading", path, ""))
                         /\ UNCHANGED <<file_contents, outputs, created_dirs,
                                        last_seen, verdict, handed>>
                  ELSE /\ last_seen' = Insert(last_seen, path, Unwrap(current))
                       /\ IF Get(file_contents, path) = current
                            THEN /\ verdict' = Some(FALSE)
                                 /\ UNCHANGED <<stderr, file_contents,
                                                outputs, created_dirs,
                                                handed>>
                            ELSE /\ verdict' = Some(TRUE)
                                 /\ \E mkdir_ok \in BOOLEAN,
                                       write_ok \in BOOLEAN :
                                      LET output_path ==
                                            get_output_path_for_file(
                                              path, cli.input, InputIsDir,
                                              cli.output, created_dirs,
                                              mkdir_ok)
                                          done ==
                                            SingleFile(
                                              "compile", path,
                                              Some(output_path.res.val),
                                              write_ok)
                                      IN /\ created_dirs' = output_path.dirs
                                         /\ IF ~output_path.res.ok
                                              THEN /\ stderr' =
                                                        Some(output_path.res.err)
                                                   /\ UNCHANGED <<outputs,
                                                                  file_contents,
                                                                  handed>>
                                              ELSE /\ outputs' = done.files
                                                   /\ stderr' =
                                                        IF done.res.ok
                                                          THEN stderr
                                                          ELSE Some(done.res.err)
                                                   /\ file_contents' =
                                                        Insert(file_contents,
                                                               path,
                                                               Unwrap(current))
                                                   /\ handed' =
                                                        Insert(handed, path,
                                                               Unwrap(current))
  /\ UNCHANGED <<vars_env, exit_code, easl_files, failed, queued_config,
                 lock_holder, config, inner, drawn, wpc, file_content,
                 current_content, new_config, attempted, written, taken_from, published, applied_configs>>

CliThread == CliStart \/ CompileBatchStep \/ CheckBatchStep \/ FormatBatchStep
               \/ BatchEnd \/ CompileWatchCache \/ CompileWatcherNew
               \/ CompileWatcherWatch \/ CompileRecv \/ CompilePath

RunThread == RunFileStart \/ SketchInit \/ UpdateLock \/ UpdateTake
               \/ UpdateRender \/ RunExit

\* ============================================ run_file, the watcher thread
\* `fs::read_to_string(&input_clone)` at the start of the thread.
WatcherReadInitial ==
  /\ Running /\ wpc = "read_initial"
  /\ IF file = None
       THEN wpc' = "ended_read_error" /\ UNCHANGED file_content
       ELSE wpc' = "new_watcher" /\ file_content' = file
  /\ UNCHANGED <<vars_env, vars_main, paths, current_content, new_config,
                 vars_obs>>

\* RecommendedWatcher::new: the OS may refuse.
WatcherNew ==
  /\ Running /\ wpc = "new_watcher"
  /\ \E created \in BOOLEAN :
       IF created
         THEN wpc' = "watch" /\ UNCHANGED stderr
         ELSE /\ wpc' = "ended_watcher_error"
              /\ stderr' = Some(Diag("Error: Failed to create file watcher", <<>>, ""))
  /\ UNCHANGED <<vars_env, vars_main, file_content, paths, current_content,
                 new_config, written, taken_from, published, applied_configs, handed, attempted, last_seen,
                 verdict>>

\* watcher.watch(&input_clone, NonRecursive): the OS may refuse.
WatcherWatch ==
  /\ Running /\ wpc = "watch"
  /\ \E registered \in BOOLEAN :
       IF registered
         THEN wpc' = "recv" /\ watching' = TRUE /\ UNCHANGED stderr
         ELSE /\ wpc' = "ended_watcher_error"
              /\ stderr' = Some(Diag("Error: Failed to watch file", cli.input,
                                 ""))
              /\ UNCHANGED watching
  /\ UNCHANGED <<cli, file, rx, disconnected, env_steps, vars_main,
                 file_content, paths, current_content, new_config, written,
                 taken_from, published, applied_configs, handed, tree, attempted, last_seen, verdict>>

\* The kinds the run --watch loop handles.
RunWatchHandles(kind) == kind \in {"Modify", "Create", "Remove"}

\* `rx.recv()` and the match on its result. recv returns the oldest message;
\* it fails only when the channel is empty and disconnected.
WatcherRecv ==
  /\ Running /\ wpc = "recv"
  /\ IF rx # <<>>
       THEN /\ rx' = Tail(rx)
            /\ IF Head(rx).tag = "error"
                 THEN /\ stderr' = Some(Diag("Watch error", <<>>, ""))
                      /\ UNCHANGED <<wpc, paths>>
                 ELSE IF RunWatchHandles(Head(rx).kind)
                        THEN /\ paths' = Head(rx).paths
                             /\ wpc' = "paths"
                             /\ UNCHANGED stderr
                        ELSE UNCHANGED <<wpc, paths, stderr>>
       ELSE /\ disconnected
            /\ stderr' = Some(Diag("Channel error", <<>>, ""))
            /\ wpc' = "ended_channel_error"
            /\ UNCHANGED <<rx, paths>>
  /\ UNCHANGED <<cli, file, watching, disconnected, env_steps, vars_main,
                 file_content, current_content, new_config, written,
                 taken_from, published, applied_configs, handed, tree, attempted, last_seen, verdict>>

\* `path == &input_clone || path.ends_with(input_clone.file_name())`
IsInputPath(path) ==
  path = cli.input \/ ends_with(path, file_name(cli.input))

\* A faulty turn, for comparison: a read that fails empties the cache.
WatcherPath_ForgetsOnError ==
  /\ Running /\ wpc = "paths"
  /\ IF paths = <<>>
       THEN wpc' = "recv"
            /\ UNCHANGED <<paths, file_content, current_content, stderr,
                           last_seen, verdict>>
       ELSE IF ~IsInputPath(Head(paths))
         THEN paths' = Tail(paths)
              /\ UNCHANGED <<wpc, file_content, current_content, stderr,
                             last_seen, verdict>>
       ELSE IF file = None
         THEN /\ stderr' = Some(Diag("Error reading", cli.input, ""))
              /\ paths' = Tail(paths)
              /\ file_content' = None
              /\ UNCHANGED <<wpc, current_content, last_seen, verdict>>
       ELSE /\ last_seen' = Insert(last_seen, cli.input, Unwrap(file))
            /\ IF file_content = file
                 THEN /\ verdict' = Some(FALSE)
                      /\ paths' = Tail(paths)
                      /\ UNCHANGED <<wpc, file_content, current_content,
                                     stderr>>
                 ELSE /\ verdict' = Some(TRUE)
                      /\ file_content' = file
                      /\ current_content' = file
                      /\ wpc' = "build"
                      /\ UNCHANGED <<paths, stderr>>
  /\ UNCHANGED <<vars_env, vars_main, new_config, attempted, written,
                 taken_from, published, applied_configs, handed>>

\* One turn of `for path in &event.paths`: skip a path that is not the
\* input, read the file, compare with file_content, record the new content.
WatcherPath ==
  /\ Running /\ wpc = "paths"
  /\ IF paths = <<>>
       THEN wpc' = "recv"
            /\ UNCHANGED <<paths, file_content, current_content, stderr,
                           last_seen, verdict>>
       ELSE IF ~IsInputPath(Head(paths))
         THEN paths' = Tail(paths)
              /\ UNCHANGED <<wpc, file_content, current_content, stderr,
                             last_seen, verdict>>
       ELSE IF file = None
         THEN /\ stderr' = Some(Diag("Error reading", cli.input, ""))
              /\ paths' = Tail(paths)
              /\ UNCHANGED <<wpc, file_content, current_content, last_seen,
                             verdict>>
       ELSE /\ last_seen' = Insert(last_seen, cli.input, Unwrap(file))
            /\ IF file_content = file
                 THEN /\ verdict' = Some(FALSE)
                      /\ paths' = Tail(paths)
                      /\ UNCHANGED <<wpc, file_content, current_content,
                                     stderr>>
                 ELSE /\ verdict' = Some(TRUE)
                      /\ file_content' = file
                      /\ current_content' = file
                      /\ wpc' = "build"
                      /\ UNCHANGED <<paths, stderr>>
  /\ UNCHANGED <<vars_env, vars_main, new_config, attempted, written,
                 taken_from, published, applied_configs, handed>>

\* A faulty rebuild step, for comparison: a rebuild that fails empties the
\* slot.
WatcherBuild_ClearsSlot ==
  /\ Running /\ wpc = "build"
  /\ LET built == create_run_config(Unwrap(current_content), cli.fragment,
                                    cli.vertex, cli.triangles)
     IN IF built.ok
          THEN /\ new_config' = Some(built.val)
               /\ wpc' = "lock"
               /\ UNCHANGED <<stderr, paths, queued_config>>
          ELSE /\ stderr' = Some(built.err)
               /\ wpc' = "recv"
               /\ paths' = <<>>
               /\ queued_config' = None
               /\ UNCHANGED new_config
  /\ current_content' = None
  /\ handed' = Insert(handed, cli.input, Unwrap(current_content))
  /\ UNCHANGED <<vars_env, mpc, exit_code, vars_batch, lock_holder, config,
                 inner, drawn, file_content, written, taken_from, published, applied_configs, attempted,
                 last_seen, verdict>>

\* create_run_config on the new content, and the match on its result up to
\* the call of lock().
WatcherBuild ==
  /\ Running /\ wpc = "build"
  /\ LET built == create_run_config(Unwrap(current_content), cli.fragment,
                                    cli.vertex, cli.triangles)
     IN IF built.ok
          THEN /\ new_config' = Some(built.val)
               /\ wpc' = "lock"
               /\ UNCHANGED <<stderr, paths>>
          ELSE /\ stderr' = Some(built.err)
               /\ wpc' = "recv"
               /\ paths' = <<>>
               /\ UNCHANGED new_config
  /\ current_content' = None
  /\ handed' = Insert(handed, cli.input, Unwrap(current_content))
  /\ UNCHANGED <<vars_env, vars_main, file_content, written, taken_from, published, applied_configs,
                 attempted, last_seen, verdict>>

\* `config_arc_clone.lock()`: returns once the lock is free.
WatcherLock ==
  /\ Running /\ wpc = "lock"
  /\ lock_holder = "none"
  /\ lock_holder' = "watcher"
  /\ wpc' = "store"
  /\ UNCHANGED <<vars_env, mpc, exit_code, queued_config, config, inner,
                 drawn, file_content, paths, current_content, new_config,
                 vars_obs, vars_batch>>

\* A faulty store, for comparison: a config waiting in the slot is kept.
Store_KeepsFirst(slot, cfg) == IF slot = None THEN Some(cfg) ELSE slot

\* `*config = Some(new_config)`
Store(slot, cfg) == Some(cfg)

WatcherStore ==
  /\ Running /\ wpc = "store"
  /\ queued_config' = Store(queued_config, Unwrap(new_config))
  /\ written' = Append(written, Unwrap(new_config))
  /\ published' = Append(published, Unwrap(new_config))
  /\ new_config' = None
  /\ wpc' = "reloaded"
  /\ UNCHANGED <<vars_env, mpc, exit_code, lock_holder, config, inner, drawn,
                 file_content, paths, current_content, stderr, taken_from, applied_configs, handed,
                 vars_batch, attempted, last_seen, verdict>>

\* `println!("Shader reloaded successfully!")` with the guard still alive,
\* the guard dropped at the end of the `if let`, and `break`.
WatcherReloaded ==
  /\ Running /\ wpc = "reloaded"
  /\ lock_holder' = "none"
  /\ paths' = <<>>
  /\ wpc' = "recv"
  /\ UNCHANGED <<vars_env, mpc, exit_code, queued_config, config, inner,
                 drawn, file_content, current_content, new_config, vars_obs,
                 vars_batch>>

WatcherThread == WatcherReadInitial \/ WatcherNew \/ WatcherWatch
                   \/ WatcherRecv \/ WatcherPath \/ WatcherBuild
                   \/ WatcherLock \/ WatcherStore \/ WatcherReloaded

\* ======================================================= the environment
CanSend == watching /\ ~disconnected

\* The user saves the input file with another content; a registered watcher
\* reports it.
EnvEdit ==
  /\ Running /\ mpc # "main" /\ ~InputIsDir
  /\ env_steps < MaxEnvSteps
  /\ \E text \in Sources, kind \in {"Create", "Modify"} :
       /\ file # Some(text)
       /\ kind = "Create" => file = None
       /\ file' = Some(text)
       /\ rx' = IF CanSend THEN Append(rx, Event(kind, <<cli.input>>)) ELSE rx
  /\ env_steps' = env_steps + 1
  /\ UNCHANGED <<cli, tree, watching, disconnected, vars_main, vars_watcher,
                 vars_obs>>

\* The input file is removed or becomes unreadable.
EnvRemove ==
  /\ Running /\ mpc # "main" /\ ~InputIsDir
  /\ env_steps < MaxEnvSteps
  /\ file # None
  /\ file' = None
  /\ rx' = IF CanSend THEN Append(rx, Event("Remove", <<cli.input>>)) ELSE rx
  /\ env_steps' = env_steps + 1
  /\ UNCHANGED <<cli, tree, watching, disconnected, vars_main, vars_watcher,
                 vars_obs>>

\* The contents a file of the input directory may take.
TreeTexts == {SrcTwo, SrcBroken}

\* The user saves a source file of the input directory with another
\* content, or the file becomes unreadable.
EnvEditTree ==
  /\ Running /\ mpc # "main" /\ InputIsDir
  /\ env_steps < MaxEnvSteps
  /\ \E path \in {f \in FilePaths(InputDir, tree) : IsEasl(f)},
        content \in {None} \cup {Some(text) : text \in TreeTexts} :
       /\ ReadPath(path) # content
       /\ tree' = WriteNode(tree, strip_prefix(path, InputDir).val, content)
       /\ rx' = IF CanSend
                  THEN Append(rx, Event(IF content = None THEN "Remove"
                                        ELSE "Modify", <<path>>))
                  ELSE rx
  /\ env_steps' = env_steps + 1
  /\ UNCHANGED <<cli, file, watching, disconnected, vars_main, vars_watcher,
                 vars_obs>>

\* The messages a watcher may send with no content change behind them:
\* an event of any kind for a path it watches, a Modify event that names a
\* source by its absolute path, a Modify event that names another path
\* before the input file, an error.
SpuriousMessages ==
  {WatchError} \cup
    IF InputIsDir
      THEN {Event(kind, <<path>>) :
              kind \in EventKinds, path \in NodePaths(InputDir, tree)}
             \cup {Event("Modify", <<Absolute(path)>>) :
                     path \in {f \in FilePaths(InputDir, tree) : IsEasl(f)}}
      ELSE {Event(kind, <<cli.input>>) : kind \in EventKinds}
             \cup {Event("Modify", <<OtherFile, cli.input>>)}

\* A message with no content change behind it: a duplicate or metadata
\* event, or an error of the watcher.
EnvSpurious ==
  /\ Running /\ CanSend
  /\ env_steps < MaxEnvSteps
  /\ \E msg \in SpuriousMessages : rx' = Append(rx, msg)
  /\ env_steps' = env_steps + 1
  /\ UNCHANGED <<cli, file, tree, watching, disconnected, vars_main,
                 vars_watcher, vars_obs>>

\* The watcher's sending side goes away.
EnvDisconnect ==
  /\ Running /\ watching /\ ~disconnected
  /\ env_steps < MaxEnvSteps
  /\ disconnected' = TRUE
  /\ env_steps' = env_steps + 1
  /\ UNCHANGED <<cli, file, tree, rx, watching, vars_main, vars_watcher,
                 vars_obs>>

Environment == EnvEdit \/ EnvRemove \/ EnvEditTree \/ EnvSpurious
                 \/ EnvDisconnect

\* ========================================================== the inputs
\* The command lines tried.
RunCommands ==
  [command : {"run"}, input : {InputFile}, output : {None}, watch : BOOLEAN,
   fragment : FragmentArgs, vertex : VertexArgs, triangles : TriangleArgs]

BatchCommands ==
  {c \in [command : {"compile", "check", "format"},
          input : {InputFile, InputDir},
          output : {None, Some(OutputFile), Some(OutputDir)},
          watch : BOOLEAN, fragment : {None}, vertex : {None},
          triangles : {None}] :
     /\ c.watch => c.command = "compile"
     /\ c.command = "check" => c.output = None
     /\ c.output = Some(OutputFile) => c.input = InputFile
     /\ c.output = Some(OutputDir) => c.input = InputDir}

\* The input directories tried: a.easl, notes.txt and sub/ in any order of
\* listing, each there or not, sub/ empty or holding b.easl.
NotesText == Source("notes", FALSE, <<>>, <<>>, <<>>)

FileStates == {None} \cup {Some(text) : text \in TreeTexts}

SubDirs ==
  {Dir(listable, entries) :
     listable \in BOOLEAN,
     entries \in {<<>>} \cup {<<Entry(Name("b", "easl"), File(content))>> :
                               content \in FileStates}}

RootEntries ==
  {Entry(Name("a", "easl"), File(content)) : content \in FileStates}
    \cup {Entry(Name("notes", "txt"), File(Some(NotesText)))}
    \cup {Entry(Name("sub", ""), sub) : sub \in SubDirs}

MaxRootEntries == 3

\* The output files an earlier run may have left: in/a.wgsl.
StaleOutputs ==
  {[path |-> join(InputDir, <<Name("a", "wgsl")>>),
    data |-> <<"wgsl", "stale">>]}

Trees ==
  {Dir(FALSE, <<>>)} \cup
  {Dir(TRUE, entries) :
     entries \in {e \in UNION {[1..n -> RootEntries] : n \in 0..MaxRootEntries} :
                    \A i, j \in 1..Len(e) : i # j => e[i].name # e[j].name}}

\* ======================================================== specification
Init ==
  /\ cli \in RunCommands \cup BatchCommands
  /\ file \in IF cli.input = InputFile
               THEN {None} \cup {Some(text) : text \in Sources}
               ELSE {None}
  /\ tree \in IF cli.input = InputDir THEN Trees ELSE {Dir(TRUE, <<>>)}
  /\ easl_files = <<>>
  /\ failed = <<>>
  /\ file_contents = {}
  /\ outputs \in IF cli.command = "compile" /\ cli.input = InputDir
                      /\ cli.output = None /\ ~cli.watch
                   THEN {{}, StaleOutputs}
                   ELSE {{}}
  /\ created_dirs = {}
  /\ attempted = <<>>
  /\ last_seen = {}
  /\ verdict = None
  /\ rx = <<>>
  /\ watching = FALSE
  /\ disconnected = FALSE
  /\ env_steps = 0
  /\ mpc = "main"
  /\ exit_code = None
  /\ queued_config = None
  /\ lock_holder = "none"
  /\ config = None
  /\ inner = None
  /\ drawn = None
  /\ wpc = "unspawned"
  /\ file_content = None
  /\ paths = <<>>
  /\ current_content = None
  /\ new_config = None
  /\ stderr = None
  /\ written = <<>>
  /\ taken_from = <<>>
  /\ published = <<>>
  /\ applied_configs = <<>>
  /\ handed = {}

Next == CliThread \/ RunThread \/ WatcherThread \/ Environment

Spec == Init /\ [][Next]_vars

\* ------------------------------------------ create_run_config on its own
\* `easl run` without --watch over a wider choice of sources and arguments:
\* every size of the entry lists, every kind of triangles global.
BuildGlobals ==
  {<<>>,
   <<GlobalVar("triangles", None, Some(<<"2">>))>>,
   <<GlobalVar("triangles", None, Some(<<"+", "3">>))>>,
   <<GlobalVar("triangles", None, Some(<<"-", "1">>))>>,
   <<GlobalVar("triangles", None, Some(<<"x">>))>>,
   <<GlobalVar("triangles", None, None)>>,
   <<GlobalVar("triangles", Some("uniform"), Some(<<"5">>))>>,
   <<GlobalVar("Triangles", None, Some(<<"6">>))>>,
   <<GlobalVar("scale", None, Some(<<"7">>)),
     GlobalVar("triangles", None, Some(<<"2">>))>>,
   <<GlobalVar("triangles", None,
               Some(<<"1", "4", "3", "1", "6", "5", "5", "7", "6", "5">>))>>,
   <<GlobalVar("triangles", None,
               Some(<<"4", "2", "9", "4", "9", "6", "7", "2", "9", "5">>))>>}

BuildSources ==
  {SrcBroken} \cup
  {Source("built", TRUE, frags, verts, globals) :
     frags \in {<<>>, <<"frag">>, <<"frag", "frag2">>},
     verts \in {<<>>, <<"vert">>, <<"vert", "vert2">>},
     globals \in BuildGlobals}

\* The least triangle count whose triple leaves the u32 range:
\* 1431655766 = (2^32 + 2) / 3, in halves.
FirstOverflowingTriangles == MulAddU32(<<21845, 21845>>, 1, 1).val

BuildCommands ==
  [command : {"run"}, input : {InputFile}, output : {None}, watch : {FALSE},
   fragment : {None, Some("frag"), Some("other")},
   vertex : {None, Some("vert"), Some("other")},
   triangles : {None, Some(U32(4)), Some(FirstOverflowingTriangles)}]

InitBuild ==
  /\ cli \in BuildCommands
  /\ file \in {Some(text) : text \in BuildSources}
  /\ tree = Dir(TRUE, <<>>)
  /\ easl_files = <<>>
  /\ failed = <<>>
  /\ file_contents = {}
  /\ outputs = {}
  /\ created_dirs = {}
  /\ attempted = <<>>
  /\ last_seen = {}
  /\ verdict = None
  /\ rx = <<>>
  /\ watching = FALSE
  /\ disconnected = FALSE
  /\ env_steps = 0
  /\ mpc = "main"
  /\ exit_code = None
  /\ queued_config = None
  /\ lock_holder = "none"
  /\ config = None
  /\ inner = None
  /\ drawn = None
  /\ wpc = "unspawned"
  /\ file_content = None
  /\ paths = <<>>
  /\ current_content = None
  /\ new_config = None
  /\ stderr = None
  /\ written = <<>>
  /\ taken_from = <<>>
  /\ published = <<>>
  /\ applied_configs = <<>>
  /\ handed = {}

NextBuild == RunThread

SpecBuild == InitBuild /\ [][NextBuild]_vars


\* ---------------------------------------------- find_easl_files on its own
\* `easl check in` over a wider choice of directories: a.easl, notes.txt, a
\* directory named lib.easl and a directory sub with a directory deep in
\* it, each there or not, each directory listable or not.
Optional(entry) == {<<>>, <<entry>>}

PlainFile == File(Some(SrcTwo))

DeepDirs ==
  {Dir(listable, d) :
     listable \in BOOLEAN, d \in Optional(Entry(Name("d", "easl"), PlainFile))}

LibDirs ==
  {Dir(listable, c \o r) :
     listable \in BOOLEAN,
     c \in Optional(Entry(Name("c", "easl"), PlainFile)),
     r \in Optional(Entry(Name("readme", ""), PlainFile))}

FindSubDirs ==
  {Dir(listable, b \o t \o d) :
     listable \in BOOLEAN,
     b \in Optional(Entry(Name("b", "easl"), PlainFile)),
     t \in Optional(Entry(Name("b", "txt"), PlainFile)),
     d \in UNION {Optional(Entry(Name("deep", ""), deep)) : deep \in DeepDirs}}

FindTrees ==
  {Dir(listable, a \o n \o l \o sub) :
     listable \in BOOLEAN,
     a \in Optional(Entry(Name("a", "easl"), PlainFile)),
     n \in Optional(Entry(Name("notes", "txt"), PlainFile)),
     l \in UNION {Optional(Entry(Name("lib", "easl"), lib)) : lib \in LibDirs},
     sub \in UNION {Optional(Entry(Name("sub", ""), d)) : d \in FindSubDirs}}

InitFind ==
  /\ cli = [command |-> "check", input |-> InputDir, output |-> None,
            watch |-> FALSE, fragment |-> None, vertex |-> None,
            triangles |-> None]
  /\ file = None
  /\ tree \in FindTrees
  /\ easl_files = <<>>
  /\ failed = <<>>
  /\ file_contents = {}
  /\ outputs = {}
  /\ created_dirs = {}
  /\ attempted = <<>>
  /\ last_seen = {}
  /\ verdict = None
  /\ rx = <<>>
  /\ watching = FALSE
  /\ disconnected = FALSE
  /\ env_steps = 0
  /\ mpc = "main"
  /\ exit_code = None
  /\ queued_config = None
  /\ lock_holder = "none"
  /\ config = None
  /\ inner = None
  /\ drawn = None
  /\ wpc = "unspawned"
  /\ file_content = None
  /\ paths = <<>>
  /\ current_content = None
  /\ new_config = None
  /\ stderr = None
  /\ written = <<>>
  /\ taken_from = <<>>
  /\ published = <<>>
  /\ applied_configs = <<>>
  /\ handed = {}

NextFind == CliStart \/ CheckBatchStep \/ BatchEnd

SpecFind == InitFind /\ [][NextFind]_vars

\* --------------------------------------------------- compile --watch alone
\* `easl compile --watch` from its start, with the environment: main runs
\* compile_file on the main thread, which the scheduler keeps running, so
\* the steps of the initial compilation (compile_once) are taken when they
\* can be.
InitCompileWatch == Init /\ cli.command = "compile" /\ cli.watch

NextCompileWatch ==
  \/ CliStart \/ CompileBatchStep \/ BatchEnd
  \/ CompileWatchCache \/ CompileWatcherNew \/ CompileWatcherWatch
  \/ CompileRecv \/ CompilePath
  \/ EnvEdit \/ EnvRemove \/ EnvEditTree \/ EnvSpurious \/ EnvDisconnect

SpecCompileWatch ==
  /\ InitCompileWatch /\ [][NextCompileWatch]_vars
  /\ WF_vars(CliStart \/ CompileBatchStep \/ BatchEnd)

\* ================================================================ claims
BatchCommand == cli.command \in {"compile", "check", "format"}

\* The source set find_easl_files resolves for a directory input. Edits
\* change the content of files and never the shape of the tree, so it is
\* the same in every state of a run.
Resolved == find_easl_files(cli.input, tree)

LastOrNone(seq) == IF seq = <<>> THEN None ELSE Some(seq[Len(seq)])

\* The steps of UserSketch::update.
UpdateStep == UpdateLock \/ UpdateTake \/ UpdateRender

\* C1: the take() of UserSketch::update never blocks the render loop: when
\* the frame tick arrives while the watcher thread holds the lock of the
\* slot, update can go on at once (with no config taken) and does not wait
\* for the lock.
C1_TakeNeverBlocks ==
  (mpc = "update" /\ lock_holder = "watcher") => ENABLED UpdateStep

\* C2: in a batch over a directory, whatever fails for one file, every file
\* of the resolved source set is attempted exactly once before the command
\* ends.
C2_EveryFileAttemptedOnce ==
  (exit_code # None /\ BatchCommand /\ InputIsDir /\ Resolved.ok
     /\ Resolved.val # <<>>)
    => /\ Len(attempted) = Len(Resolved.val)
       /\ Range(attempted) = Range(Resolved.val)

\* A turn of compile --watch's path loop that enters Recompile: a Modify
\* event for a source path whose content was read and differs from what the
\* cache holds for it, or the cache holds nothing for it.
EntersRecompile ==
  /\ mpc = "paths" /\ paths # <<>> /\ paths' = Tail(paths)
  /\ IsEasl(Head(paths))
  /\ ReadPath(Head(paths)) # None
  /\ Get(file_contents, Head(paths)) # ReadPath(Head(paths))

\* C3: every turn of compile --watch that enters Recompile for a path leaves
\* the cache holding the content just read for that path, whether the output
\* path derivation and the compilation succeeded or failed.
C3_CacheUpdatedWhateverTheOutcome ==
  [][EntersRecompile
       => Get(file_contents', Head(paths)) = ReadPath(Head(paths))]_vars

\* The diagnostics of a watcher that could not be constructed or registered,
\* and of a receive error on its channel.
WatchInitErrors ==
  {"Error: Failed to create file watcher", "Error: Failed to watch path",
   "Error: Failed to watch file"}

WatchChannelErrors == {"Error: Channel receive error", "Channel error"}

\* C4: in compile --watch and in run --watch alike, a watcher that cannot be
\* constructed or registered ends the process with a non-zero exit code
\* before any watching, and a receive error on the channel ends the watch
\* loop and the process with a non-zero exit code.
C4_WatchFailuresAreFatal ==
  /\ (IsSome(stderr) /\ Unwrap(stderr).msg \in WatchInitErrors)
       => (exit_code = Some(1) /\ ~watching)
  /\ (IsSome(stderr) /\ Unwrap(stderr).msg \in WatchChannelErrors)
       => exit_code = Some(1)
  /\ wpc \in {"ended_watcher_error", "ended_channel_error"}
       => exit_code = Some(1)

\* C5: for every source set resolved from a directory, the empty one
\* included, a batch command exits with code 0 exactly when its list of
\* failed files is empty.
C5_SuccessIffNoFailedFile ==
  (exit_code # None /\ BatchCommand /\ ~cli.watch /\ InputIsDir
     /\ Resolved.ok)
    => (exit_code = Some(0) <=> failed = <<>>)

\* C6: every RunConfig create_run_config produces, for the initial build
\* and for every rebuild, has a triangle count of at least one.
C6_TrianglesPositive ==
  /\ IsSome(queued_config) => Unwrap(queued_config).triangles # U32(0)
  /\ IsSome(new_config) => Unwrap(new_config).triangles # U32(0)
  /\ IsSome(config) => Unwrap(config).triangles # U32(0)

\* C7: the slot holds at most one config, the last one stored: after two
\* stores with no take between them the next take yields the second one
\* only, and a take with no store since the take before it yields nothing.
C7_LastWriteWins ==
  /\ queued_config = LastOrNone(written)
  /\ mpc = "apply" => config = LastOrNone(taken_from)

\* C7's case: a take that followed two stores of different configs.
C7_Witness ==
  /\ mpc = "apply"
  /\ Len(taken_from) = 2
  /\ taken_from[1] # taken_from[2]
  /\ config = Some(taken_from[2])
  /\ queued_config = None

\* The step of the watcher thread that ends a rebuild in an error.
RebuildFails == wpc = "build" /\ wpc' = "recv"

\* C8: in run --watch a rebuild that fails, in compilation or in the
\* validation of entry points and triangle count, changes neither the slot
\* nor what the render loop uses, and its diagnostic is written.
C8_FailedRebuildKeepsConfig ==
  [][RebuildFails
       => /\ queued_config' = queued_config
          /\ inner' = inner
          /\ config' = config
          /\ drawn' = drawn
          /\ new_config' = None
          /\ IsSome(stderr')
          /\ stderr' =
               Some(create_run_config(Unwrap(current_content), cli.fragment,
                                      cli.vertex, cli.triangles).err)]_vars

\* C8's case: the edit to a text the compiler rejects was handled while a
\* pipeline built from an earlier config is in use.
C8_Witness ==
  /\ wpc = "recv"
  /\ verdict = Some(TRUE)
  /\ file_content = Some(SrcBroken)
  /\ stderr = Some(Diag("Compilation failed", <<>>, "broken"))
  /\ IsSome(inner)
  /\ IsSome(Unwrap(inner).render_pipeline)

\* What update_config leaves in the sketch for a config.
Applied(cfg) ==
  [triangles |-> cfg.triangles,
   render_pipeline |-> Some([wgsl |-> cfg.wgsl,
                             vertex_entry |-> cfg.vertex_entry,
                             fragment_entry |-> cfg.fragment_entry])]

\* C9: the first update after the store of a rebuilt config takes the
\* newest config stored since the last take, leaves the slot empty, and
\* applies the config to the sketch in the same tick.
C9_PickedUpWithinOneTick ==
  [][/\ (mpc = "take" /\ mpc' = "apply")
          => (config' = LastOrNone(written) /\ queued_config' = None)
     /\ (mpc = "apply" /\ mpc' = "update" /\ IsSome(config))
          => (inner' = Some(Applied(Unwrap(config)))
                /\ drawn' = Some(VertexCount(Unwrap(config).triangles)))]_vars

\* C9's case: a rebuilt config, stored by the watcher thread, is the one in
\* use and the slot is empty again.
C9_Witness ==
  /\ mpc = "update"
  /\ wpc = "recv"
  /\ verdict = Some(TRUE)
  /\ queued_config = None
  /\ IsSome(file_content)
  /\ IsSome(inner)
  /\ Unwrap(inner).render_pipeline
       = Some([wgsl |-> <<"wgsl", Unwrap(file_content).text>>,
               vertex_entry |-> "vert", fragment_entry |-> "frag"])
  /\ taken_from # <<>>
  /\ Len(taken_from) = 1

\* A turn of a watch loop that reaches the change check for `path`, the
\* content read being `content`.
CompileChecks(path, content) ==
  /\ mpc = "paths" /\ paths # <<>> /\ paths' = Tail(paths)
  /\ path = Head(paths) /\ IsEasl(path)
  /\ content = ReadPath(path) /\ content # None

RunChecks(path, content) ==
  /\ wpc = "paths" /\ paths # <<>> /\ (paths' = Tail(paths) \/ wpc' = "build")
  /\ path = cli.input /\ IsInputPath(Head(paths))
  /\ content = file /\ content # None

\* The content recorded for `path`: what the cache of the loop holds.
Recorded(path) ==
  IF cli.command = "run" THEN file_content ELSE Get(file_contents, path)

\* C10: the change check of both watch loops answers as has_changed: for the
\* first event of a path, changed exactly when nothing is recorded for the
\* path or what is recorded differs; for an event right after one with the
\* same content, unchanged; for an event after one with another content,
\* changed.
C10_ChangeCheckIsHasChanged ==
  [][\A path \in {cli.input} \cup NodePaths(InputDir, tree) :
       \A content \in {file, ReadPath(path)} :
       (CompileChecks(path, content) \/ RunChecks(path, content))
         => verdict' =
              Some(IF IsSome(Get(last_seen, path))
                     THEN Get(last_seen, path) # content
                     ELSE Recorded(path) # content)]_vars

\* The errors of entry-point resolution, by kind.
NoEntryPointErrors ==
  {"No fragment entry point found", "No vertex entry point found"}

AmbiguousEntryPointErrors ==
  {"Multiple fragment entry points found",
   "Multiple vertex entry points found"}

UnknownEntryPointErrors ==
  {"No fragment entry point named", "No vertex entry point named"}

\* What the resolution of one stage has to answer for the entries of the
\* stage and the name given on the command line.
ResolvesStage(res, entries, explicit) ==
  /\ res.ok <=> IF IsSome(explicit) THEN Unwrap(explicit) \in entries
                ELSE Cardinality(entries) = 1
  /\ res.ok => /\ res.val \in entries
               /\ IsSome(explicit) => res.val = Unwrap(explicit)
  /\ ~res.ok =>
       IF IsSome(explicit)
         THEN /\ res.err.msg \in UnknownEntryPointErrors
              /\ res.err.detail = Unwrap(explicit)
         ELSE IF entries = {}
           THEN res.err.msg \in NoEntryPointErrors
           ELSE res.err.msg \in AmbiguousEntryPointErrors

\* C11: entry-point resolution, the same for the fragment and the vertex
\* stage: with no name given it succeeds exactly when the stage has one entry
\* and picks it, fails with the no-entry-point error for none and with the
\* ambiguous error for several; with a name given it succeeds exactly when
\* the name is among the entries and fails otherwise with the unknown-entry
\* error naming it. A resolved name is one of the entries, and the config
\* built, or the error the command ends with, is the one of the resolution.
C11_EntryPointResolution ==
  LET info == Unwrap(file)
      fragment_entry == FragmentEntry(info, cli.fragment)
      vertex_entry == VertexEntry(info, cli.vertex)
  IN /\ ResolvesStage(fragment_entry, Range(info.fragment_entries),
                      cli.fragment)
     /\ ResolvesStage(vertex_entry, Range(info.vertex_entries), cli.vertex)
     /\ (mpc # "main" /\ info.compiles) =>
          /\ ~fragment_entry.ok => stderr = Some(fragment_entry.err)
          /\ (fragment_entry.ok /\ ~vertex_entry.ok)
               => stderr = Some(vertex_entry.err)
          /\ IsSome(queued_config) =>
               /\ Unwrap(queued_config).fragment_entry = fragment_entry.val
               /\ Unwrap(queued_config).vertex_entry = vertex_entry.val
               /\ Unwrap(queued_config).fragment_entry
                    \in Range(info.fragment_entries)
               /\ Unwrap(queued_config).vertex_entry
                    \in Range(info.vertex_entries)

\* C11's case: a fragment name given that is one of two entries, and the
\* build ended by the ambiguous vertex stage.
C11_Witness ==
  /\ mpc = "exited"
  /\ IsSome(file)
  /\ Len(Unwrap(file).fragment_entries) = 2
  /\ cli.fragment = Some("frag")
  /\ cli.vertex = None
  /\ stderr = Some(Diag("Multiple vertex entry points found", <<>>, ""))

\* A text that reads as an integer: an optional sign, then digits.
IsInteger(s) ==
  /\ s # <<>>
  /\ LET body == IF Head(s) \in {"+", "-"} THEN Tail(s) ELSE s
     IN body # <<>> /\ \A i \in 1..Len(body) : body[i] \in Digits

\* The global is not a uniform and is named exactly `triangles`.
NamedTriangles(var) == var.uniform_info = None /\ var.name = "triangles"

\* What the claim of C12 says of the state, for a reading `parses` of "the
\* value parses": the values of the triangles globals that count.
TriangleValues(info, u32_only) ==
  {info.global_vars[i].value : i \in
     {j \in 1..Len(info.global_vars) :
        /\ NamedTriangles(info.global_vars[j])
        /\ IsSome(info.global_vars[j].value)
        /\ IF u32_only
             THEN IsSome(ParseU32(Unwrap(info.global_vars[j].value)))
             ELSE IsInteger(Unwrap(info.global_vars[j].value))}}

\* The triangle count resolved, and what the command made of it.
ResolvesTriangles(u32_only) ==
  LET info == Unwrap(file)
      count == TriangleCount(info, cli.triangles)
      values == TriangleValues(info, u32_only)
      resolved == FragmentEntry(info, cli.fragment).ok
                    /\ VertexEntry(info, cli.vertex).ok
  IN /\ IsSome(cli.triangles) => count = Ok(Unwrap(cli.triangles))
     /\ cli.triangles = None =>
          /\ count.ok <=> values # {}
          /\ count.ok => \E v \in values : ParseU32(Unwrap(v)) = Some(count.val)
          /\ ~count.ok => count.err.msg = "No triangle count specified"
     /\ (mpc # "main" /\ info.compiles /\ resolved) =>
          /\ ~count.ok => /\ stderr = Some(count.err)
                          /\ exit_code = Some(1)
                          /\ queued_config = None
                          /\ inner = None
          /\ IsSome(queued_config)
               => Unwrap(queued_config).triangles = count.val

\* C12 as stated: a --triangles value wins over the source; without one the
\* count is the value of a non-uniform global named `triangles` whose value
\* parses as an integer, and with no such global the build fails with the
\* missing-triangle-count error and produces no config.
C12_TriangleResolutionAnyInteger == ResolvesTriangles(FALSE)

\* C12, amended: as above with "parses as an integer" read as "parses as a
\* u32": a `triangles` global whose value is an integer outside 0..2^32-1,
\* such as -1, counts as no such global and the build fails with the
\* missing-triangle-count error.
C12_TriangleResolution == ResolvesTriangles(TRUE)

\* C12's case: --triangles 4 given for a source that declares 2 triangles.
C12_Witness ==
  /\ IsSome(queued_config)
  /\ cli.triangles = Some(U32(4))
  /\ Unwrap(queued_config).triangles = U32(4)
  /\ IsSome(file)
  /\ Unwrap(file).global_vars
       = <<GlobalVar("triangles", None, Some(<<"2">>))>>

\* A turn of compile_once's loop over the files of a directory.
CompileBatchTurn ==
  /\ mpc = "batch" /\ cli.command = "compile" /\ InputIsDir
  /\ easl_files # <<>> /\ easl_files' = Tail(easl_files)

\* The source at the head of the list can be read and compiles.
HeadCompiles ==
  /\ IsSome(ReadPath(Head(easl_files)))
  /\ try_compile_easl(Unwrap(ReadPath(Head(easl_files)))).ok

\* The files after the output of the source at the head of the list was
\* written.
HeadWritten ==
  Insert(outputs,
         get_output_path_for_file(Head(easl_files), cli.input, InputIsDir,
                                  cli.output, created_dirs, TRUE).res.val,
         try_compile_easl(Unwrap(ReadPath(Head(easl_files)))).val)

\* The turn writes the output of the source at the head of the list.
OutputWritten == HeadCompiles /\ outputs' = HeadWritten

\* The end of a batch compile: exit code 1 and the number of failed sources
\* in the summary exactly when a source failed.
BatchCompileEnds ==
  (mpc = "batch" /\ cli.command = "compile" /\ easl_files = <<>>
     /\ mpc' # "batch")
    => /\ failed # <<>> <=> exit_code' = Some(1)
       /\ failed # <<>> =>
            stderr' = Some(Diag("Failed to compile file(s)", <<>>,
                                ToString(Len(failed))))

PathInHand ==
  IF cli.command = "compile" /\ mpc = "batch" /\ easl_files # <<>>
    THEN Some(Head(easl_files))
  ELSE IF cli.command = "compile" /\ mpc = "paths" /\ paths # <<>>
    THEN Some(Head(paths))
  ELSE None

\* `path` with the extension of its last component replaced by wgsl.
AsWgsl(path) ==
  [i \in 1..Len(path) |->
     IF i = Len(path) THEN <<path[i][1], "wgsl">> ELSE path[i]]

\* `path` lies below the directory `root`.
NestedUnder(path, root) ==
  Len(path) >= Len(root) /\ \A i \in 1..Len(root) : path[i] = root[i]

\* The components of `path` after those of `root`.
Below(path, root) == [i \in 1..(Len(path) - Len(root)) |-> path[Len(root) + i]]

\* What C14 says of one call: the answer `out` for the source `path`, with
\* create_dir_all succeeding or not.
MapsOutputPath(out, path, mkdir_ok) ==
  IF cli.output = None
    THEN out.res = Ok(AsWgsl(path)) /\ out.dirs = created_dirs
  ELSE IF ~InputIsDir
    THEN out.res = Ok(Unwrap(cli.output)) /\ out.dirs = created_dirs
  ELSE /\ out.res.ok <=> (NestedUnder(path, cli.input) /\ mkdir_ok)
       /\ out.res.ok =>
            /\ out.res.val = AsWgsl(Unwrap(cli.output) \o Below(path, cli.input))
            /\ \A n \in 1..(Len(out.res.val) - 1) :
                 SubSeq(out.res.val, 1, n) \in out.dirs
       /\ ~out.res.ok =>
            /\ out.dirs = created_dirs
            /\ out.res.err.msg =
                 IF NestedUnder(path, cli.input)
                   THEN "Error: Failed to create directory"
                   ELSE "Error: Failed to calculate relative path for"

\* C14: get_output_path_for_file answers, with no output root, the source
\* path with the extension wgsl; with an output root and a file as input,
\* the output root as it is; with an output root and a directory as input,
\* the output root joined with the source path relative to the input and
\* the extension wgsl, every parent directory of it existing on return;
\* and in that last case it fails exactly when the source is not below the
\* input or the directories cannot be created.
C14_OutputPathMapping ==
  IsSome(PathInHand) =>
    \A mkdir_ok \in BOOLEAN :
      MapsOutputPath(
        get_output_path_for_file(Unwrap(PathInHand), cli.input, InputIsDir,
                                 cli.output, created_dirs, mkdir_ok),
        Unwrap(PathInHand), mkdir_ok)

\* C14's case: out/sub/b.wgsl was written for in/sub/b.easl, its parent
\* directories created.
C14_Witness ==
  /\ cli.command = "compile" /\ InputIsDir /\ cli.output = Some(OutputDir)
  /\ IsSome(Get(outputs, <<Name("out", ""), Name("sub", ""),
                           Name("b", "wgsl")>>))
  /\ <<Name("out", ""), Name("sub", "")>> \in created_dirs
  /\ <<Name("out", "")>> \in created_dirs

RECURSIVE EveryDirListable(_)
\* Every directory at or below `node` can be listed.
EveryDirListable(node) ==
  node.kind = "dir" =>
    /\ node.listable
    /\ \A i \in 1..Len(node.entries) : EveryDirListable(node.entries[i].node)

\* The files at any depth below the input directory whose extension is the
\* source extension.
MatchingFiles == {f \in FilePaths(cli.input, tree) : extension(f) = Some("easl")}

\* C15: for a directory input find_easl_files returns exactly the files
\* with the source extension at any depth, each once, and no directory,
\* whatever the directories are named; when a directory of the traversal
\* cannot be listed the resolution fails and no part of the set is used.
C15_FindReturnsTheMatchingFiles ==
  LET found == find_easl_files(cli.input, tree)
  IN /\ found.ok <=> EveryDirListable(tree)
     /\ found.ok => /\ Range(found.val) = MatchingFiles
                    /\ Len(found.val) = Cardinality(MatchingFiles)
     /\ ~found.ok => found.err.msg = "Error: Failed to read directory"
     /\ (mpc # "main" /\ found.ok) => attempted \o easl_files = found.val
     /\ (mpc # "main" /\ ~found.ok) =>
          /\ exit_code = Some(1) /\ stderr = Some(found.err)
          /\ attempted = <<>> /\ easl_files = <<>>

\* C15's case: the sources of a directory named lib.easl and of sub/deep
\* were found next to a.easl and checked, notes.txt and sub/b.txt passed
\* over.
C15_Witness ==
  /\ mpc = "exited" /\ exit_code = Some(0)
  /\ attempted =
       <<join(InputDir, <<Name("a", "easl")>>),
         join(InputDir, <<Name("lib", "easl"), Name("c", "easl")>>),
         join(InputDir, <<Name("sub", ""), Name("deep", ""),
                          Name("d", "easl")>>)>>
  /\ IsSome(ReadPath(join(InputDir, <<Name("notes", "txt")>>)))
  /\ IsSome(ReadPath(join(InputDir, <<Name("sub", ""), Name("b", "txt")>>)))

\* A turn of a watch loop in which the read of the changed file fails.
CompileReadFails ==
  /\ mpc = "paths" /\ paths # <<>> /\ paths' = Tail(paths)
  /\ IsEasl(Head(paths)) /\ ReadPath(Head(paths)) = None

RunReadFails ==
  /\ wpc = "paths" /\ paths # <<>> /\ paths' = Tail(paths)
  /\ IsInputPath(Head(paths)) /\ file = None

\* C16: in both watch loops a read of the changed file that fails is
\* reported, leaves the cache as it was, runs no operation again, stores
\* nothing in the slot, and the loop goes on to the next path and event.
C16_ReadFailureIsSkipped ==
  [][(CompileReadFails \/ RunReadFails) =>
       /\ IsSome(stderr') /\ Unwrap(stderr').msg = "Error reading"
       /\ file_contents' = file_contents
       /\ file_content' = file_content
       /\ outputs' = outputs /\ created_dirs' = created_dirs
       /\ failed' = failed
       /\ queued_config' = queued_config /\ new_config' = new_config
       /\ written' = written
       /\ current_content' = current_content
       /\ last_seen' = last_seen /\ verdict' = verdict
       /\ exit_code' = None
       /\ mpc' = mpc /\ wpc' = wpc]_vars

\* C16's case: in run --watch the read failed for the event of a removal,
\* and the event of the edit that brought the file back was handled after
\* it.
C16_Witness ==
  /\ cli.command = "run" /\ wpc = "recv" /\ rx = <<>>
  /\ IsSome(stderr) /\ Unwrap(stderr).msg = "Error reading"
  /\ IsSome(file)
  /\ Get(last_seen, cli.input) = file
  /\ IsSome(queued_config) \/ IsSome(inner)

\* C17: the lock of the slot is held for the swap (watcher thread) or the
\* take (render thread) and nothing else: no thread holds it while it reads
\* or writes a file or the console, compiles, builds a config or a
\* pipeline.
C17_LockHeldForTheSwapOnly ==
  /\ lock_holder = "watcher" => wpc = "store"
  /\ lock_holder = "render" => mpc = "take"

\* A step of a watch loop that receives the message at the head of the
\* channel.
CompileReceives == mpc = "recv" /\ rx # <<>> /\ rx' = Tail(rx)

RunReceives == wpc = "recv" /\ rx # <<>> /\ rx' = Tail(rx)

\* C18: in compile --watch a Modify event alone leads on to the read of a
\* file, a recompilation or a change of the cache, and every other message
\* leaves cache and outputs as they are; in run --watch Modify, Create and
\* Remove events go on to the change evaluation of their paths, and every
\* other kind is ignored.
C18_EventKinds ==
  [][/\ CompileReceives =>
          /\ file_contents' = file_contents /\ outputs' = outputs
          /\ created_dirs' = created_dirs
          /\ IF Head(rx).tag = "event" /\ Head(rx).kind = "Modify"
               THEN mpc' = "paths" /\ paths' = Head(rx).paths
               ELSE mpc' = "recv" /\ paths' = paths
     /\ (cli.command = "compile" /\ watching
           /\ (file_contents' # file_contents \/ outputs' # outputs))
          => mpc = "paths"
     /\ RunReceives =>
          /\ file_content' = file_content /\ queued_config' = queued_config
          /\ IF Head(rx).tag = "event"
                  /\ Head(rx).kind \in {"Modify", "Create", "Remove"}
               THEN wpc' = "paths" /\ paths' = Head(rx).paths
               ELSE wpc' = "recv" /\ paths' = paths]_vars

\* C18's case: in run --watch the one thing that happened to the file is
\* its removal, and the Remove event went through the change evaluation,
\* where the read failed.
C18_Witness ==
  /\ cli.command = "run" /\ wpc = "recv" /\ rx = <<>>
  /\ env_steps = 1
  /\ file = None
  /\ IsSome(stderr) /\ Unwrap(stderr).msg = "Error reading"

RECURSIVE IsSubsequence(_, _)
\* `a` is `b` with some of its elements left out.
IsSubsequence(a, b) ==
  IF a = <<>> THEN TRUE
  ELSE IF b = <<>> THEN FALSE
  ELSE IF Head(a) = Head(b) THEN IsSubsequence(Tail(a), Tail(b))
  ELSE IsSubsequence(a, Tail(b))

\* C19: the configs the render thread applies are, in the order of their
\* application, a subsequence of the configs stored in the slot, the initial
\* one first and every successful rebuild after it: none is applied twice,
\* none after one that was stored later.
C19_AppliedInPublicationOrder ==
  /\ IsSubsequence(applied_configs, published)
  /\ IsSome(config) =>
       IsSubsequence(Append(applied_configs, Unwrap(config)), published)

\* C19's case: of three configs stored the second was overwritten before
\* it was taken, and the first and the third were applied.
C19_Witness ==
  /\ Len(published) = 3
  /\ published[1] # published[2] /\ published[2] # published[3]
  /\ applied_configs = <<published[1], published[3]>>

\* C20: whenever a watch loop is idle, what its cache holds for a file is
\* the content last handed to the operation for that file, the compilation
\* or the build of the config; so it is when watching begins, where the
\* operation is the initial compilation or the initial build, also when
\* the file was edited while the command started.
C20_CacheIsWhatTheOperationSaw ==
  /\ (cli.command = "compile" /\ mpc = "recv") =>
       \A e \in file_contents : Get(handed, e.path) = Some(e.data)
  /\ (cli.command = "run" /\ wpc = "recv") =>
       file_content = Get(handed, cli.input)

\* The watcher of compile --watch was created: the command is at or past
\* watcher.watch, or it ended there.
WatcherCreated ==
  \/ mpc \in {"watch", "recv", "paths"}
  \/ watching
  \/ stderr = Some(Diag("Error: Failed to watch path", cli.input, ""))

\* The initial compilation is over and every source of it was compiled and
\* its output written.
InitialCompileSucceeded ==
  /\ easl_files = <<>> /\ failed = <<>> /\ attempted # <<>>
  /\ \A f \in Range(attempted) :
       LET output_path ==
             get_output_path_for_file(f, cli.input, InputIsDir, cli.output,
                                      created_dirs, TRUE).res.val
       IN IsSome(Get(handed, f)) /\ IsSome(Get(outputs, output_path))

\* The input directory holds no source file.
NoSources == InputIsDir /\ find_easl_files(cli.input, tree) = Ok(<<>>)

\* The initial compilation of a source failed: a source of the directory is
\* in `failed`, or the one input file was tried and nothing was written.
InitialCompileFailed ==
  \/ InputIsDir /\ failed # <<>>
  \/ ~InputIsDir /\ mpc # "main" /\ outputs = {}

\* C21: compile --watch begins to watch only after the initial compilation
\* succeeded for every source; when the initial compilation of a source
\* fails, or the directory holds no source, the command ends with the
\* error and exit code 1, no watcher is created and no event is processed.
C21_WatchOnlyAfterInitialCompile ==
  /\ [](WatcherCreated => InitialCompileSucceeded)
  /\ []((InitialCompileFailed \/ NoSources) =>
          /\ ~WatcherCreated /\ file_contents = {}
          /\ rx = <<>> /\ paths = <<>> /\ verdict = None /\ last_seen = {}
          /\ mpc \in {"main", "batch", "exited"}
          /\ mpc = "exited" =>
               /\ exit_code = Some(1)
               /\ IsSome(stderr)
               /\ NoSources =>
                    stderr = Some(Diag("No .easl files found in directory",
                                       cli.input, ""))
               /\ failed # <<>> =>
                    stderr = Some(BatchFailure("compile", Len(failed))))
  /\ (InitialCompileFailed \/ NoSources) ~> (exit_code = Some(1))

\* C21's case: of the two sources of the directory the first failed, the
\* second was still compiled, and the command ended with 1, no watcher
\* created.
C21_Witness ==
  /\ cli.command = "compile" /\ cli.watch /\ InputIsDir
  /\ mpc = "exited" /\ exit_code = Some(1)
  /\ Len(attempted) = 2 /\ failed = <<attempted[1]>>
  /\ Cardinality(outputs) = 1
  /\ ~watching /\ file_contents = {}

\* C22: for every config the render loop applies, whatever triangle count
\* create_run_config accepted from --triangles or from the source, the
\* draw call is made and its vertex count is exactly three times the
\* config's triangle count, the product not leaving the u32 range.
C22_VertexCountIsThreeTimesTriangles ==
  [][(mpc = "apply" /\ mpc' # mpc /\ IsSome(config) /\ IsSome(inner)) =>
       LET triangles == Unwrap(config).triangles
       IN /\ IsSome(drawn')
          /\ Unwrap(drawn')[2] = (3 * triangles[2]) % HalfBase
          /\ Unwrap(drawn')[1] =
               3 * triangles[1] + (3 * triangles[2]) \div HalfBase]_vars

====
